---- MODULE Spec2Model ----
(***************************************************************************)
(* Model of main.py: the transaction pipeline                              *)
(* process_and_log_transaction (Gemini call, JSON span extraction, Note    *)
(* injection, Google Sheets append) and the HTTP front end                 *)
(* api_process_transaction that drives it.                                 *)
(*                                                                         *)
(* A text (Python str) is a sequence of chunks.  A chunk is one            *)
(* structural character, one whitespace character, or a run of other       *)
(* characters ("Amount", "250", "x").  A JSON string value is the sequence *)
(* of chunks between its quotes, so the empty string "" is << >>.          *)
(***************************************************************************)
EXTENDS Integers, Sequences, FiniteSets, TLC

\* ---------------------------------------------------------------- bounds
NReq == 2           \* HTTP requests in flight
MaxLen == 3         \* length of the exhaustively enumerated response texts

\* ------------------------------------------------------------ characters
LBrace == "{"
RBrace == "}"
Quote == "\""
Colon == ":"
Comma == ","
Space == " "
Newline == "\n"

Whitespace == {Space, Newline}
\* characters json.loads rejects inside a string literal (strict mode)
ControlChars == {Newline}
\* runs of digits: a bare run of these is a JSON number
NumberRuns == {"250"}

\* --------------------------------------------------- str.strip/find/rfind
RECURSIVE lstrip(_)
lstrip(s) == IF s # << >> /\ Head(s) \in Whitespace THEN lstrip(Tail(s)) ELSE s

RECURSIVE rstrip(_)
rstrip(s) ==
  IF s # << >> /\ s[Len(s)] \in Whitespace
  THEN rstrip(SubSeq(s, 1, Len(s) - 1))
  ELSE s

\* str.strip(): leading and trailing whitespace removed
strip(s) == rstrip(lstrip(s))

\* str.find(c): 0-based index of the first occurrence, -1 when absent
find(s, c) ==
  IF \E k \in 1..Len(s) : s[k] = c
  THEN (CHOOSE k \in 1..Len(s) : s[k] = c /\ \A m \in 1..(k - 1) : s[m] # c) - 1
  ELSE -1

\* str.rfind(c): 0-based index of the last occurrence, -1 when absent
rfind(s, c) ==
  IF \E k \in 1..Len(s) : s[k] = c
  THEN (CHOOSE k \in 1..Len(s) : s[k] = c /\ \A m \in (k + 1)..Len(s) : s[m] # c) - 1
  ELSE -1

\* s[a:b] for 0-based a, b >= 0
Slice(s, a, b) == SubSeq(s, a + 1, IF b > Len(s) THEN Len(s) ELSE b)

\* ------------------------------------------------------------ json.loads
\* JSON values: <<"s", chunks>> string, <<"n", chunks>> number,
\* <<"o", dict>> object, where dict is a function from keys (chunk
\* sequences) to JSON values.
JStr(v) == <<"s", v>>
JNum(v) == <<"n", v>>
JObj(d) == <<"o", d>>
EmptyDict == << >>

ParseFail == [ok |-> FALSE, val |-> << >>, next |-> 0]
ParseOk(v, n) == [ok |-> TRUE, val |-> v, next |-> n]

RECURSIVE SkipWs(_, _)
SkipWs(s, i) == IF i <= Len(s) /\ s[i] \in Whitespace THEN SkipWs(s, i + 1) ELSE i

\* s[i] is an opening quote: the literal runs to the next quote and must
\* hold no control character
ScanString(s, i) ==
  IF \E j \in (i + 1)..Len(s) : s[j] = Quote
  THEN LET j == CHOOSE j \in (i + 1)..Len(s) :
                  s[j] = Quote /\ \A m \in (i + 1)..(j - 1) : s[m] # Quote
       IN IF \E m \in (i + 1)..(j - 1) : s[m] \in ControlChars
          THEN ParseFail
          ELSE ParseOk(SubSeq(s, i + 1, j - 1), j + 1)
  ELSE ParseFail

IsRun(c) == c \notin {LBrace, RBrace, Quote, Colon, Comma} \cup Whitespace

RECURSIVE RunEnd(_, _)
RunEnd(s, i) == IF i <= Len(s) /\ IsRun(s[i]) THEN RunEnd(s, i + 1) ELSE i

\* s[i] starts a bare token: it is a number iff every run in it is digits
ScanNumber(s, i) ==
  LET e == RunEnd(s, i)
  IN IF e > i /\ \A m \in i..(e - 1) : s[m] \in NumberRuns
     THEN ParseOk(JNum(SubSeq(s, i, e - 1)), e)
     ELSE ParseFail

DictSet(d, k, v) == [x \in (DOMAIN d) \cup {k} |-> IF x = k THEN v ELSE d[x]]

RECURSIVE ParseValue(_, _), ParseObject(_, _), ParseMembers(_, _, _)

ParseValue(s, i) ==
  IF i > Len(s) THEN ParseFail
  ELSE IF s[i] = Quote
       THEN LET r == ScanString(s, i)
            IN IF r.ok THEN ParseOk(JStr(r.val), r.next) ELSE ParseFail
  ELSE IF s[i] = LBrace THEN ParseObject(s, i)
  ELSE ScanNumber(s, i)

ParseObject(s, i) ==
  LET j == SkipWs(s, i + 1)
  IN IF j > Len(s) THEN ParseFail
     ELSE IF s[j] = RBrace THEN ParseOk(JObj(EmptyDict), j + 1)
     ELSE ParseMembers(s, j, EmptyDict)

\* members from position j on; a repeated key keeps its last value
ParseMembers(s, j, d) ==
  IF j > Len(s) \/ s[j] # Quote THEN ParseFail
  ELSE LET key == ScanString(s, j)
       IN IF ~key.ok THEN ParseFail
          ELSE LET k == SkipWs(s, key.next)
               IN IF k > Len(s) \/ s[k] # Colon THEN ParseFail
                  ELSE LET v == ParseValue(s, SkipWs(s, k + 1))
                       IN IF ~v.ok THEN ParseFail
                          ELSE LET m == SkipWs(s, v.next)
                                   d2 == DictSet(d, key.val, v.val)
                               IN IF m > Len(s) THEN ParseFail
                                  ELSE IF s[m] = Comma
                                       THEN ParseMembers(s, SkipWs(s, m + 1), d2)
                                  ELSE IF s[m] = RBrace
                                       THEN ParseOk(JObj(d2), m + 1)
                                  ELSE ParseFail

\* json.loads(s): one value, surrounded by optional whitespace, and nothing
\* else; ok = FALSE stands for json.JSONDecodeError
json_loads(s) ==
  LET r == ParseValue(s, SkipWs(s, 1))
  IN IF r.ok /\ SkipWs(s, r.next) = Len(s) + 1
     THEN [ok |-> TRUE, val |-> r.val]
     ELSE [ok |-> FALSE, val |-> << >>]

\* ------------------------------------------------------- program constants
AmountKey == <<"Amount">>
DateKey == <<"Date">>
PlatformKey == <<"Platform">>
ItemsKey == <<"Items">>
VendorKey == <<"Vendor">>
NoteKey == <<"Note">>

CanonKeys == <<AmountKey, DateKey, PlatformKey, ItemsKey, VendorKey>>
CanonKeySet == {CanonKeys[k] : k \in 1..5}

ErrNoGemini == "Gemini client not initialized"
ErrNoSheet == "Google Sheets client not initialized"
ErrMalformed == "Failed to parse Gemini JSON response"
ErrNoJson == "Could not find JSON in Gemini response"
ErrRequestFailed == "Gemini API request failed"

\* the header row the sheet is set up with (columns in ledger order)
HeaderRow ==
  << JStr(AmountKey), JStr(DateKey), JStr(PlatformKey), JStr(ItemsKey),
     JStr(VendorKey), JStr(NoteKey), JStr(<<"Raw", Space, "Gemini", Space, "Output">>) >>

\* ------------------------------------------------------------------ state
Requests == 1..NReq

VARIABLES
  GeminiClient,          \* TRUE iff genai.Client(...) was constructed
  sheet,                 \* TRUE iff the worksheet handle was acquired
  ledger,                \* rows of the worksheet, in order
  pc,                    \* where each request's handler stands
  request,               \* the multipart form each request carried
  user_note,             \* local of process_and_log_transaction
  response,              \* what generate_content returned
  parse,                 \* outcome of the span search and json.loads
  structured_analysis,   \* the decoded object after the Note assignment
  result,                \* the tuple process_and_log_transaction returned
  status,                \* HTTP status the endpoint answered, 0 = none yet
  calls,                 \* external and library calls made for the request
  raised                 \* the call that raised inside the pipeline

vars == << GeminiClient, sheet, ledger, pc, request, user_note, response,
           parse, structured_analysis, result, status, calls, raised >>

NoRequest ==
  [has_image |-> FALSE, has_note |-> FALSE, filename_empty |-> FALSE,
   read_ok |-> TRUE, note |-> << >>]
NoResponse == [has_text |-> FALSE, text |-> << >>]
NoParse == [status |-> "none", decoded |-> EmptyDict]
NoResult == [returned |-> FALSE, success |-> FALSE, error |-> "",
             data |-> EmptyDict, raw_response |-> << >>]
NoCalls == [pipeline |-> 0, generate_content |-> 0, json_loads |-> 0, append_row |-> 0]

Init ==
  /\ GeminiClient \in BOOLEAN
  /\ sheet \in BOOLEAN
  /\ ledger = << HeaderRow >>
  /\ pc = [i \in Requests |-> "idle"]
  /\ request = [i \in Requests |-> NoRequest]
  /\ user_note = [i \in Requests |-> << >>]
  /\ response = [i \in Requests |-> NoResponse]
  /\ parse = [i \in Requests |-> NoParse]
  /\ structured_analysis = [i \in Requests |-> EmptyDict]
  /\ result = [i \in Requests |-> NoResult]
  /\ status = [i \in Requests |-> 0]
  /\ calls = [i \in Requests |-> NoCalls]
  /\ raised = [i \in Requests |-> "none"]

\* ----------------------------------------------------------------- inputs
Notes == { << >>, <<"lunch">> }

\* multipart forms: a form without the image part has no filename and
\* nothing to read, a form without the note part has no note value
RequestForms ==
  { r \in [has_image : BOOLEAN, has_note : BOOLEAN, filename_empty : BOOLEAN,
           read_ok : BOOLEAN, note : Notes] :
      /\ ~r.has_image => (~r.filename_empty /\ r.read_ok)
      /\ ~r.has_note => r.note = << >>
      /\ r.filename_empty => r.read_ok }

\* ------------------------------------------------ process_and_log_transaction
Return(i, ok, err, data, raw) ==
  /\ result' = [result EXCEPT ![i] =
                  [returned |-> TRUE, success |-> ok, error |-> err,
                   data |-> data, raw_response |-> raw]]
  /\ pc' = [pc EXCEPT ![i] = "returned"]

\* dict.get(key, "")
Get(d, k) == IF k \in DOMAIN d THEN d[k] ELSE JStr(<< >>)

\* the raw column filled with the stripped text instead of response.text
BuildRow_StrippedRaw(d, note, raw_text) ==
  << Get(d, AmountKey), Get(d, DateKey), Get(d, PlatformKey), Get(d, ItemsKey),
     Get(d, VendorKey), JStr(note), JStr(strip(raw_text)) >>

\* the list handed to sheet.append_row
BuildRow(d, note, raw_text) ==
  << Get(d, AmountKey), Get(d, DateKey), Get(d, PlatformKey), Get(d, ItemsKey),
     Get(d, VendorKey), JStr(note), JStr(raw_text) >>

\* setdefault instead of assignment: a Note of the model's survives
SetNote_KeepModel(d, note) ==
  IF NoteKey \in DOMAIN d THEN d ELSE DictSet(d, NoteKey, JStr(note))

\* the returned object normalised: every canonical key present
SetNote_Defaults(d, note) ==
  [k \in (DOMAIN d) \cup CanonKeySet \cup {NoteKey} |->
     IF k = NoteKey THEN JStr(note) ELSE Get(d, k)]

\* structured_analysis['Note'] = user_note
SetNote(d, note) == DictSet(d, NoteKey, JStr(note))

\* the order test dropped
HasJsonSpan_NoOrder(json_start, json_end) == json_start # -1 /\ json_end # -1

\* json_start != -1 and json_end != -1 and json_start < json_end
HasJsonSpan(json_start, json_end) ==
  json_start # -1 /\ json_end # -1 /\ json_start < json_end

\* the slice ending before the closing brace
JsonStr_ExclusiveEnd(cleaned, json_start, json_end) == Slice(cleaned, json_start, json_end)

\* cleaned_pre_analysis_text[json_start:json_end+1]
JsonStr(cleaned, json_start, json_end) == Slice(cleaned, json_start, json_end + 1)

\* the sheet guard dropped
HandlesReady_ClientOnly == GeminiClient

\* both handles truthy: the two guards at the top of the function
HandlesReady == GeminiClient /\ sheet

ConfigError == IF ~GeminiClient THEN ErrNoGemini ELSE ErrNoSheet

\* entry of the function up to the generate_content call
ProcessAndLogTransaction(i) ==
  /\ pc[i] = "pipeline"
  /\ IF HandlesReady
     THEN /\ pc' = [pc EXCEPT ![i] = "generate_content"]
          /\ UNCHANGED result
     ELSE Return(i, FALSE, ConfigError, EmptyDict, << >>)
  /\ UNCHANGED << GeminiClient, sheet, ledger, request, user_note, response,
                  parse, structured_analysis, status, calls, raised >>

\* generate_content raises: caught by the outer except
GenerateContentRaises(i) ==
  /\ raised' = [raised EXCEPT ![i] = "generate_content"]
  /\ Return(i, FALSE, ErrRequestFailed, EmptyDict, << >>)
  /\ calls' = [calls EXCEPT ![i].generate_content = @ + 1]
  /\ UNCHANGED << ledger, response, parse, structured_analysis >>

\* response.text is None: .strip() raises AttributeError, caught by the
\* outer except
ResponseTextNone(i) ==
  /\ response' = [response EXCEPT ![i] = [has_text |-> FALSE, text |-> << >>]]
  /\ raised' = [raised EXCEPT ![i] = "strip"]
  /\ Return(i, FALSE, ErrRequestFailed, EmptyDict, << >>)
  /\ calls' = [calls EXCEPT ![i].generate_content = @ + 1]
  /\ UNCHANGED << ledger, parse, structured_analysis >>

\* the else branch logging the raw text to the sheet before returning
ReturnNoJson_LogsRaw(i, text) ==
  /\ parse' = [parse EXCEPT ![i] = [status |-> "NoJsonFound", decoded |-> EmptyDict]]
  /\ Return(i, FALSE, ErrNoJson, EmptyDict, text)
  /\ calls' = [calls EXCEPT ![i].generate_content = @ + 1]
  /\ ledger' = Append(ledger, BuildRow(EmptyDict, user_note[i], text))
  /\ UNCHANGED << structured_analysis, raised >>

\* the else branch: no brace span in the text
ReturnNoJson(i, text) ==
  /\ parse' = [parse EXCEPT ![i] = [status |-> "NoJsonFound", decoded |-> EmptyDict]]
  /\ Return(i, FALSE, ErrNoJson, EmptyDict, text)
  /\ calls' = [calls EXCEPT ![i].generate_content = @ + 1]
  /\ UNCHANGED << ledger, structured_analysis, raised >>

\* except json.JSONDecodeError
ReturnMalformed(i, text) ==
  /\ parse' = [parse EXCEPT ![i] = [status |-> "MalformedJson", decoded |-> EmptyDict]]
  /\ Return(i, FALSE, ErrMalformed, EmptyDict, text)
  /\ calls' = [calls EXCEPT ![i] =
                 [@ EXCEPT !.generate_content = @ + 1, !.json_loads = @ + 1]]
  /\ UNCHANGED << ledger, structured_analysis, raised >>

\* json.loads succeeded: the Note is set and append_row is about to be called
Parsed(i, d) ==
  /\ parse' = [parse EXCEPT ![i] = [status |-> "ok", decoded |-> d]]
  /\ structured_analysis' = [structured_analysis EXCEPT ![i] = SetNote(d, user_note[i])]
  /\ pc' = [pc EXCEPT ![i] = "append_row"]
  /\ calls' = [calls EXCEPT ![i] =
                 [@ EXCEPT !.generate_content = @ + 1, !.json_loads = @ + 1]]
  /\ UNCHANGED << ledger, result, raised >>

\* generate_content returned text: strip, span search, decode
ResponseReceived(i, text) ==
  /\ response' = [response EXCEPT ![i] = [has_text |-> TRUE, text |-> text]]
  /\ LET cleaned_pre_analysis_text == strip(text)
         json_start == find(cleaned_pre_analysis_text, LBrace)
         json_end == rfind(cleaned_pre_analysis_text, RBrace)
     IN IF HasJsonSpan(json_start, json_end)
        THEN LET json_str == JsonStr(cleaned_pre_analysis_text, json_start, json_end)
                 r == json_loads(json_str)
             IN IF r.ok THEN Parsed(i, r.val[2]) ELSE ReturnMalformed(i, text)
        ELSE ReturnNoJson(i, text)

\* the generate_content call and everything up to the next external call
GenerateContent(i, Texts) ==
  /\ pc[i] = "generate_content"
  /\ \/ GenerateContentRaises(i)
     \/ ResponseTextNone(i)
     \/ \E text \in Texts : ResponseReceived(i, text)
  /\ UNCHANGED << GeminiClient, sheet, request, user_note, status >>

\* the row inserted above the existing rows instead of appended
AppendRowOk_InsertTop(i) ==
  /\ ledger' = << BuildRow(structured_analysis[i], user_note[i], response[i].text) >>
               \o ledger
  /\ Return(i, TRUE, "", structured_analysis[i], << >>)
  /\ UNCHANGED raised

\* sheet.append_row returned: the row is the new last row
AppendRowOk(i) ==
  /\ ledger' = Append(ledger, BuildRow(structured_analysis[i], user_note[i],
                                       response[i].text))
  /\ Return(i, TRUE, "", structured_analysis[i], << >>)
  /\ UNCHANGED raised

\* sheet.append_row raised: no row added, caught by the outer except
AppendRowRaises(i) ==
  /\ raised' = [raised EXCEPT ![i] = "append_row"]
  /\ Return(i, FALSE, ErrRequestFailed, EmptyDict, << >>)
  /\ UNCHANGED ledger

AppendRow(i) ==
  /\ pc[i] = "append_row"
  /\ calls' = [calls EXCEPT ![i].append_row = @ + 1]
  /\ \/ AppendRowOk(i)
     \/ AppendRowRaises(i)
  /\ UNCHANGED << GeminiClient, sheet, request, user_note, response, parse,
                  structured_analysis, status >>

\* ------------------------------------------------- api_process_transaction
\* the request can go on to the pipeline
FormAccepted(r) == r.has_image /\ r.has_note /\ ~r.filename_empty /\ r.read_ok

\* a request arrives: the form checks, the read, and the call of the pipeline
ApiProcessTransaction(i) ==
  /\ pc[i] = "idle"
  /\ \E r \in RequestForms :
       /\ request' = [request EXCEPT ![i] = r]
       /\ IF FormAccepted(r)
          THEN /\ user_note' = [user_note EXCEPT ![i] = r.note]
               /\ calls' = [calls EXCEPT ![i].pipeline = @ + 1]
               /\ pc' = [pc EXCEPT ![i] = "pipeline"]
               /\ UNCHANGED status
          ELSE /\ status' = [status EXCEPT ![i] = 400]
               /\ pc' = [pc EXCEPT ![i] = "responded"]
               /\ UNCHANGED << user_note, calls >>
  /\ UNCHANGED << GeminiClient, sheet, ledger, response, parse,
                  structured_analysis, result, raised >>

\* the success flag ignored
StatusFor_Always200(success) == IF success THEN 200 ELSE 200

\* status for the tuple the pipeline returned
StatusFor(success) == IF success THEN 200 ELSE 500

ApiRespond(i) ==
  /\ pc[i] = "returned"
  /\ status' = [status EXCEPT ![i] = StatusFor(result[i].success)]
  /\ pc' = [pc EXCEPT ![i] = "responded"]
  /\ UNCHANGED << GeminiClient, sheet, ledger, request, user_note, response,
                  parse, structured_analysis, result, calls, raised >>

\* ---------------------------------------------------------- response texts
\* every text of at most MaxLen chunks over a small alphabet
ShortAlphabet == {LBrace, RBrace, Space, "x"}
ShortTexts == UNION { [1..n -> ShortAlphabet] : n \in 0..MaxLen }

\* json.dumps(d): members separated by ", ", key and value by ": "
RECURSIVE EncodeValue(_), EncodeMembers(_, _)
EncodeValue(v) ==
  IF v[1] = "s" THEN <<Quote>> \o v[2] \o <<Quote>>
  ELSE IF v[1] = "n" THEN v[2]
  ELSE <<LBrace>> \o EncodeMembers(v[2], DOMAIN v[2]) \o <<RBrace>>
EncodeMembers(d, keys) ==
  IF keys = {} THEN << >>
  ELSE LET k == CHOOSE k \in keys : TRUE
           rest == keys \ {k}
       IN <<Quote>> \o k \o <<Quote, Colon, Space>> \o EncodeValue(d[k])
          \o (IF rest = {} THEN << >> ELSE <<Comma, Space>>)
          \o EncodeMembers(d, rest)
Encode(d) == EncodeValue(JObj(d))

\* what the model answers for each field when it answers it
SampleValue(k) ==
  IF k = AmountKey THEN JStr(<<"250">>)
  ELSE IF k = DateKey THEN JStr(<<"2024-01-05">>)
  ELSE IF k = PlatformKey THEN JStr(<<"UPI">>)
  ELSE IF k = ItemsKey THEN JStr(<<"tea", Space, "bun">>)
  ELSE IF k = VendorKey THEN JStr(<<"cafe">>)
  ELSE JStr(<<"model">>)

\* objects the model may emit: any subset of the five fields, with or
\* without a Note of its own, and three with other value shapes
Objects ==
  { [k \in K |-> SampleValue(k)] : K \in SUBSET (CanonKeySet \cup {NoteKey}) }
  \cup { (AmountKey :> JNum(<<"250">>)),
         (ItemsKey :> JStr(<<LBrace, "tea", RBrace>>)),
         (VendorKey :> JObj((<<"name">> :> JStr(<<"cafe">>)))) }

\* the run of three backquotes that opens or closes a code fence
Fence == "fence"

Prefixes ==
  { << >>, <<Fence, "json", Newline>>, <<Space, "Here", Space>>, <<LBrace>>,
    <<"x", RBrace, Space>> }
Suffixes ==
  { << >>, <<Newline, Fence, Newline>>, <<Space, RBrace>>, <<Space, LBrace, "x">> }

\* an object embedded in surrounding text
Embeddings ==
  { [P |-> P, X |-> X, S |-> S, text |-> P \o Encode(X) \o S] :
      P \in Prefixes, X \in Objects, S \in Suffixes }

AllTexts == ShortTexts \cup { e.text : e \in Embeddings }

\* texts the concurrent specification draws from
FewTexts ==
  { <<"x">>,
    <<LBrace, Quote, "Amount", Quote, Colon, Quote, "250", Quote, RBrace, Newline>>,
    <<LBrace, "x", RBrace>> }

\* ---------------------------------------------------------- specifications
\* NReq requests handled in parallel
Next ==
  \E i \in Requests :
    \/ ApiProcessTransaction(i)
    \/ ProcessAndLogTransaction(i)
    \/ GenerateContent(i, FewTexts)
    \/ AppendRow(i)
    \/ ApiRespond(i)

Spec == Init /\ [][Next]_vars

\* one request, the model answering any of AllTexts
NextText ==
  \/ ApiProcessTransaction(1)
  \/ ProcessAndLogTransaction(1)
  \/ GenerateContent(1, AllTexts)
  \/ AppendRow(1)
  \/ ApiRespond(1)

SpecText == Init /\ [][NextText]_vars
\* ------------------------------------------------------------- properties
Returned(i) == result[i].returned
Succeeded(i) == result[i].returned /\ result[i].success
\* the step in which request i's invocation returns with success
SucceedsNow(i) == ~result[i].returned /\ result'[i].returned /\ result'[i].success

HasChar(t, c) == \E k \in 1..Len(t) : t[k] = c
FirstAt(t, c) == CHOOSE k \in 1..Len(t) : t[k] = c /\ \A m \in 1..(k - 1) : t[m] # c
LastAt(t, c) == CHOOSE k \in 1..Len(t) : t[k] = c /\ \A m \in (k + 1)..Len(t) : t[m] # c

\* the seven columns, from the decoded object, the caller's note and the
\* response text
ExpectedRow(d, note, raw) ==
  [k \in 1..7 |->
     IF k <= 5 THEN (IF CanonKeys[k] \in DOMAIN d THEN d[CanonKeys[k]] ELSE JStr(<< >>))
     ELSE IF k = 6 THEN JStr(note)
     ELSE JStr(raw)]

\* C1: when append_row raises after a successful parse, the invocation
\* returns (error, false) with an error kind of its own, distinct from the
\* kind reported for a failed generate_content call.
C1_AppendFailureHasOwnKind ==
  \A i \in Requests :
    (Returned(i) /\ raised[i] = "append_row") =>
      (~result[i].success /\ result[i].error # ErrRequestFailed)

\* C2: with the client handle or the sheet handle missing, an invocation
\* returns (configuration error, false) and makes no generate_content call
\* and no append_row call.
C2_ConfigFailFast ==
  \A i \in Requests :
    (calls[i].pipeline > 0 /\ (~GeminiClient \/ ~sheet)) =>
      /\ pc[i] \notin {"generate_content", "append_row"}
      /\ calls[i].generate_content = 0
      /\ calls[i].append_row = 0
      /\ Returned(i) =>
           /\ ~result[i].success
           /\ result[i].error \in {ErrNoGemini, ErrNoSheet}
           /\ (~GeminiClient => result[i].error = ErrNoGemini)
           /\ (GeminiClient => result[i].error = ErrNoSheet)

C2_Witness ==
  \E i \in Requests :
    GeminiClient /\ ~sheet /\ Returned(i) /\ result[i].error = ErrNoSheet

\* C3: an invocation that returns without having reached append_row
\* (configuration error, failed call, NoJsonFound, MalformedJson) returns
\* false, and neither its returning step nor any step before the
\* append_row call changes the ledger.
C3_FailureLeavesLedger ==
  [][/\ \A i \in Requests :
          (pc[i] \in {"pipeline", "generate_content"} /\ pc'[i] = "returned") =>
            (ledger' = ledger /\ ~result'[i].success /\ calls'[i].append_row = 0)
     /\ ledger' # ledger =>
          \E i \in Requests : pc[i] = "append_row" /\ result'[i].success]_vars

C3_Witness ==
  \E i \in Requests :
    /\ Returned(i) /\ parse[i].status = "NoJsonFound"
    /\ \E j \in Requests : Returned(j) /\ parse[j].status = "MalformedJson"

\* C4: the step in which an invocation succeeds appends exactly one row of
\* seven values: the decoded object's Amount, Date, Platform, Items, Vendor
\* (empty string when absent), the caller's note, and the response text
\* unstripped; the ledger changes in no other step.
C4_RowAppended ==
  [][/\ \A i \in Requests :
          SucceedsNow(i) =>
            /\ ledger' = Append(ledger, ExpectedRow(parse[i].decoded, request[i].note,
                                                    response[i].text))
            /\ Len(ledger'[Len(ledger')]) = 7
     /\ ledger' # ledger => \E i \in Requests : SucceedsNow(i)]_vars

C4_Witness ==
  \E i \in Requests :
    /\ Succeeded(i)
    /\ response[i].text # strip(response[i].text)
    /\ DOMAIN parse[i].decoded = {AmountKey, DateKey, PlatformKey}
    /\ Len(ledger) = 2

\* C5: on success the Note of the returned record and the Note column of
\* the appended row both equal the caller's note, whatever the note and
\* whatever Note the decoded object carried.
C5_NoteIsCallers ==
  [][\A i \in Requests :
       SucceedsNow(i) =>
         /\ NoteKey \in DOMAIN result'[i].data
         /\ result'[i].data[NoteKey] = JStr(request[i].note)
         /\ ledger'[Len(ledger')][6] = JStr(request[i].note)]_vars

C5_Witness ==
  \E i \in Requests :
    /\ Succeeded(i)
    /\ request[i].note = << >>
    /\ NoteKey \in DOMAIN parse[i].decoded
    /\ parse[i].decoded[NoteKey] # JStr(request[i].note)

NoBraceSpan(t) ==
  \/ ~HasChar(t, LBrace)
  \/ ~HasChar(t, RBrace)
  \/ LastAt(t, RBrace) < FirstAt(t, LBrace)

C7_NoJsonFound ==
  \A i \in Requests :
    (response[i].has_text /\ NoBraceSpan(response[i].text)) =>
      /\ parse[i].status = "NoJsonFound"
      /\ calls[i].json_loads = 0
      /\ Returned(i) /\ ~result[i].success
      /\ result[i].error = ErrNoJson
      /\ raised[i] = "none"

C7_Witness ==
  \E i \in Requests :
    response[i].has_text /\ response[i].text = <<RBrace, LBrace>> /\ Returned(i)

\* C8 as stated: for every object X, prefix P and suffix S, the parse of
\* P + encode(X) + S succeeds and decodes an object equal to X.
C8_ParseRecoversEmbedded ==
  \A i \in Requests : \A e \in Embeddings :
    (response[i].has_text /\ response[i].text = e.text) =>
      (parse[i].status = "ok" /\ parse[i].decoded = e.X)

\* C8 amended: for every object X, every prefix P holding no '{' and every
\* suffix S holding no '}', the parse of P + encode(X) + S succeeds and
\* decodes an object equal to X.
C8_ParseRecoversCleanlyEmbedded ==
  \A i \in Requests : \A e \in Embeddings :
    (/\ response[i].has_text /\ response[i].text = e.text
     /\ ~HasChar(e.P, LBrace) /\ ~HasChar(e.S, RBrace)) =>
      (parse[i].status = "ok" /\ parse[i].decoded = e.X)

C8_Witness ==
  \E i \in Requests : \E e \in Embeddings :
    /\ response[i].has_text /\ response[i].text = e.text
    /\ HasChar(e.P, RBrace) /\ HasChar(e.S, LBrace)
    /\ VendorKey \in DOMAIN e.X /\ e.X[VendorKey][1] = "o"
    /\ parse[i].status = "ok" /\ parse[i].decoded = e.X

\* C9 as stated: every answer is 400, 500 or 200; 400 exactly when the
\* image part is missing, the note part is missing or the filename is
\* empty, the pipeline then not invoked; otherwise the pipeline is invoked
\* exactly once and the answer is 200 iff it returned true, 500 iff false.
C9_StatusCodes ==
  \A i \in Requests :
    pc[i] = "responded" =>
      LET bad == ~request[i].has_image \/ ~request[i].has_note
                 \/ request[i].filename_empty
      IN /\ status[i] \in {400, 500, 200}
         /\ bad => (status[i] = 400 /\ calls[i] = NoCalls)
         /\ ~bad => /\ calls[i].pipeline = 1
                    /\ Returned(i)
                    /\ status[i] = 200 <=> result[i].success
                    /\ status[i] = 500 <=> ~result[i].success

\* C9 amended: as stated, with a fourth 400 case: the read of the image
\* file raises; in all four the pipeline is not invoked.
C9_StatusCodesWithReadError ==
  \A i \in Requests :
    pc[i] = "responded" =>
      LET bad == ~request[i].has_image \/ ~request[i].has_note
                 \/ request[i].filename_empty \/ ~request[i].read_ok
      IN /\ status[i] \in {400, 500, 200}
         /\ bad => (status[i] = 400 /\ calls[i] = NoCalls /\ ~Returned(i))
         /\ ~bad => /\ calls[i].pipeline = 1
                    /\ Returned(i)
                    /\ status[i] = 200 <=> result[i].success
                    /\ status[i] = 500 <=> ~result[i].success

C9_Witness ==
  /\ \E i \in Requests : pc[i] = "responded" /\ status[i] = 500
  /\ \E i \in Requests :
       pc[i] = "responded" /\ status[i] = 400 /\ ~request[i].read_ok

\* C10: with invocations interleaved, every ledger state extends the one
\* before, each invocation makes at most one generate_content call and at
\* most one append_row call, the ledger has gained one row per invocation
\* that returned true and none per one that returned false, and every row
\* added is built from the object, note and text of one invocation.
C10_State ==
  /\ \A i \in Requests :
       /\ calls[i].generate_content <= 1
       /\ calls[i].append_row <= 1
       /\ calls[i].pipeline <= 1
  /\ Len(ledger) = 1 + Cardinality({i \in Requests : Succeeded(i)})
  /\ ledger[1] = HeaderRow
  /\ \A r \in 2..Len(ledger) :
       \E i \in Requests :
         /\ Succeeded(i)
         /\ ledger[r] = ExpectedRow(parse[i].decoded, request[i].note, response[i].text)

C10_Step ==
  /\ Len(ledger') >= Len(ledger)
  /\ SubSeq(ledger', 1, Len(ledger)) = ledger

C10_ParallelInvocations == [] C10_State /\ [][C10_Step]_vars

C10_Witness ==
  /\ Len(ledger) = 3
  /\ ledger[2][6] # ledger[3][6]
  /\ Succeeded(1) /\ Succeeded(2)
  /\ ledger[2][6] = JStr(request[2].note)
  /\ ledger[3][6] = JStr(request[1].note)
====
